---- MODULE Spec2Model ----
(***************************************************************************)
(* Orchestration layer of Ufiles-Imagine: the per-job status machine, the  *)
(* condition registry that lets a blocked imagine_request be woken by a    *)
(* webhook or a poll, the retry policy and the bulk aggregator.            *)
(*                                                                         *)
(* Every coroutine is cut at its suspension points (database reads and     *)
(* writes, calls to the provider, the media store and the accounting       *)
(* service); the code between two suspension points is one atomic step of  *)
(* the event loop.  Each running coroutine owns an in-memory copy of the   *)
(* document it works on (handler[h].im); save() writes that copy back.      *)
(***************************************************************************)
EXTENDS Integers, Sequences, FiniteSets, TLC

\* ------------------------------------------------------------------ bounds
MaxHandlers == 2
\* one more than max_retries + 1, so that a start beyond the ceiling can show
MaxTasks == 7
MaxEvents == 2
MaxLate == 1
MaxUploads == 2
MaxCombinations == 2
MaxLen == 4
MaxPercentage == 150

\* ------------------------------------------------------- program constants
max_retries == 5

\* coroutines in flight at the same time
Handlers == 1..MaxHandlers
\* imagine_request invocations of one job: the first call and the retries
Tids == 1..MaxTasks
\* the jobs: one per combination of the bulk request (job 1 when standalone)
Jobs == 1..MaxCombinations

\* ------------------------------------------------------------ Status Model
ImaginationStatus ==
    {"none", "draft", "init", "queue", "waiting", "running", "processing",
     "done", "completed", "error", "cancelled"}

\* is_done without ImaginationStatus.done in its tuple
is_done_without_done(s) == s \in {"completed", "error", "cancelled"}

is_done(s) == s \in {"done", "completed", "error", "cancelled"}

task_status(s) ==
    CASE s = "none" -> "none"
      [] s = "draft" -> "draft"
      [] s = "init" -> "init"
      [] s \in {"queue", "waiting", "running", "processing"} -> "processing"
      [] s \in {"done", "completed"} -> "completed"
      [] s = "error" -> "error"
      [] s = "cancelled" -> "completed"

progress(s) ==
    CASE s = "processing" -> 50
      [] s = "done" -> 100
      [] OTHER -> 0

\* BaseEngine._status, used by the Midjourney and Dalle adapters
BaseEngine_status(raw) ==
    CASE raw = "initialized" -> "init"
      [] raw = "queue" -> "queue"
      [] raw = "waiting" -> "waiting"
      [] raw = "running" -> "processing"
      [] raw = "completed" -> "completed"
      [] raw = "error" -> "error"
      [] OTHER -> "error"

\* BaseReplicate._status
BaseReplicate_status(raw) ==
    CASE raw = "starting" -> "init"
      [] raw = "canceled" -> "cancelled"
      [] raw = "processing" -> "processing"
      [] raw = "succeeded" -> "completed"
      [] raw = "failed" -> "error"
      [] OTHER -> "error"

from_midjourney(raw) ==
    CASE raw = "initialized" -> "init"
      [] raw = "queue" -> "queue"
      [] raw = "waiting" -> "waiting"
      [] raw = "running" -> "processing"
      [] raw = "completed" -> "completed"
      [] raw = "error" -> "error"
      [] OTHER -> "error"

\* from_replicate with a default that passes an unknown word on as processing
from_replicate_open(raw) ==
    CASE raw = "processing" -> "processing"
      [] raw = "succeeded" -> "completed"
      [] raw = "completed" -> "completed"
      [] raw = "error" -> "error"
      [] OTHER -> "processing"

from_replicate(raw) ==
    CASE raw = "processing" -> "processing"
      [] raw = "succeeded" -> "completed"
      [] raw = "completed" -> "completed"
      [] raw = "error" -> "error"
      [] OTHER -> "error"

\* the words a provider may send as its status: the keys of the mapping
\* tables, the names of the enumeration, and words no table knows
ProviderWords ==
    {"initialized", "queue", "waiting", "running", "completed", "error",
     "starting", "canceled", "processing", "succeeded", "failed"}
        \cup ImaginationStatus \cup {"", "unknown", "timeout", "COMPLETED"}

\* the keys of each normaliser's mapping table
MappingTable(f) ==
    CASE f = "BaseEngine._status" ->
           {"initialized", "queue", "waiting", "running", "completed", "error"}
      [] f = "BaseReplicate._status" ->
           {"starting", "canceled", "processing", "succeeded", "failed"}
      [] f = "from_midjourney" ->
           {"initialized", "queue", "waiting", "running", "completed", "error"}
      [] f = "from_replicate" ->
           {"processing", "succeeded", "completed", "error"}

Normalisers == {"BaseEngine._status", "BaseReplicate._status",
                "from_midjourney", "from_replicate"}

Normalise(f, raw) ==
    CASE f = "BaseEngine._status" -> BaseEngine_status(raw)
      [] f = "BaseReplicate._status" -> BaseReplicate_status(raw)
      [] f = "from_midjourney" -> from_midjourney(raw)
      [] f = "from_replicate" -> from_replicate(raw)

\* ------------------------------------------------------------- percentage
\* the values handed to validate_percentage: None, an integer, a string
Chars == {"0", "1", "5", "%", "-"}
Digits == {"0", "1", "5"}
Strings == UNION {[1..k -> Chars] : k \in 0..MaxLen}
NoValue == [kind |-> "none", int |-> 0, str |-> <<>>]
IntValue(n) == [kind |-> "int", int |-> n, str |-> <<>>]
StrValue(t) == [kind |-> "str", int |-> 0, str |-> t]
PercentageValues ==
    {NoValue} \cup {IntValue(n) : n \in -MaxPercentage..MaxPercentage}
              \cup {StrValue(t) : t \in Strings}

\* value.replace("%", "")
replace_percent(t) == SelectSeq(t, LAMBDA c : c # "%")

\* int(t) accepts an optional sign followed by decimal digits
int_digits(t) == IF t # <<>> /\ t[1] = "-" THEN Tail(t) ELSE t
int_accepts(t) ==
    /\ int_digits(t) # <<>>
    /\ \A i \in 1..Len(int_digits(t)) : int_digits(t)[i] \in Digits

digit(c) == CASE c = "0" -> 0 [] c = "1" -> 1 [] c = "5" -> 5

RECURSIVE digits_value(_)
digits_value(t) ==
    IF t = <<>> THEN 0
    ELSE 10 * digits_value(SubSeq(t, 1, Len(t) - 1)) + digit(t[Len(t)])

int(t) == IF t[1] = "-" THEN 0 - digits_value(Tail(t)) ELSE digits_value(t)

\* validate_percentage (mode="before"): what the field receives, or the
\* ValueError of int()
validate_percentage(value) ==
    CASE value.kind = "none" -> [raised |-> FALSE, number |-> -1]
      [] value.kind = "str" ->
           IF int_accepts(replace_percent(value.str))
           THEN [raised |-> FALSE, number |-> int(replace_percent(value.str))]
           ELSE [raised |-> TRUE, number |-> 0]
      [] value.kind = "int" ->
           IF value.int < -1 THEN [raised |-> FALSE, number |-> -1]
           ELSE IF value.int > 100 THEN [raised |-> FALSE, number |-> 100]
           ELSE [raised |-> FALSE, number |-> value.int]

\* one application of a function of the status model: its argument and, once
\* it has returned, its answer
NoCall ==
    [f |-> "none", raw |-> "", value |-> NoValue, returned |-> FALSE,
     status |-> "none", polled |-> "none", flag |-> FALSE, number |-> 0,
     raised |-> FALSE]

\* ---------------------------------------------------------------- engines
Engines == {"midjourney", "flux_1.1", "dalle"}

\* the provider family of an engine (ImaginationEngines.core)
core(e) ==
    CASE e = "midjourney" -> "midjourney"
      [] e = "dalle" -> "dalle"
      [] OTHER -> "replicate"

\* status strings the providers send (submit response, poll response, webhook)
MidjourneyRaw == {"running", "completed", "error"}
ReplicateRaw == {"processing", "succeeded", "failed", "canceled"}

\* Dalle answers with a list of images, possibly empty
DalleRaw == {"image", "empty"}

ProviderRaw(e) ==
    CASE core(e) = "midjourney" -> MidjourneyRaw
      [] core(e) = "replicate" -> ReplicateRaw
      [] OTHER -> DalleRaw

\* Dalle._status
Dalle_status(raw) == IF raw = "image" THEN "completed" ELSE "error"

\* the adapter's normaliser (imagine() and result() go through _status)
engine_status(e, raw) ==
    CASE core(e) = "replicate" -> BaseReplicate_status(raw)
      [] core(e) = "dalle" -> Dalle_status(raw)
      [] OTHER -> BaseEngine_status(raw)

\* the error message an adapter's answer carries: the Replicate and Dalle
\* adapters pass the provider's error on, the Midjourney adapter removes the
\* error from the answer before it reads it and so always gives None
response_error(e, s) ==
    IF core(e) # "midjourney" /\ s = "error" THEN "ProviderError" ELSE "none"

\* the status a webhook payload is parsed to by the route
webhook_status(e, raw) ==
    IF core(e) = "replicate" THEN from_replicate(raw)
    ELSE from_midjourney(raw)

\* ------------------------------------------------------------- documents
NoError == "none"
NoUsage == 0
NoBulk == 0
TheBulk == 1

\* a | b of two meta_data dictionaries
Merge(a, b) ==
    [k \in (DOMAIN a) \cup (DOMAIN b) |-> IF k \in DOMAIN b THEN b[k] ELSE a[k]]

EmptyMeta == [k \in {} |-> 0]

\* meta_data.get("retry_count", 0)
get_retry_count(meta) ==
    IF "retry_count" \in DOMAIN meta THEN meta["retry_count"] ELSE 0

\* the Imagination document as ImagineSchema creates it (results 0 is None,
\* otherwise the number of stored images)
NewImagination(b) ==
    [status |-> "draft", task_status |-> "draft", results |-> 0,
     error |-> NoError, meta_data |-> EmptyMeta, usage_id |-> NoUsage,
     bulk |-> b]

\* the ImaginationBulk document (results counts the collected images, errors
\* the collected error entries, completed_at tells whether the completion
\* time is set)
NewImaginationBulk(n) ==
    [task_status |-> "init", total_tasks |-> n, total_completed |-> 0,
     total_failed |-> 0, results |-> 0, errors |-> 0, completed_at |-> FALSE]

\* --------------------------------------------------------------- state
VARIABLES
    engine,                  \* job -> its engine ("none": no such job)
    store,                   \* the Imagination collection: job -> document
    bulk_store,              \* the ImaginationBulk collection: the one bulk job
    imagination_conditions,  \* _imagination_conditions: job -> entry present
    tasks,                   \* job -> how many imagine_request calls are where
    started,                 \* job -> imagine_request calls started so far
    task_result,             \* job -> the statuses imagine_request returned
    handler,                 \* the coroutines in flight and their local copies
    usages,                  \* accounting service: job -> call -> usage state
    requests,                \* job -> provider requests issued so far
    uploads,                 \* job -> uploads to the media store so far
    expired,                 \* job -> now - created_at >= 10 minutes
    missed,                  \* job -> running calls released before they waited
    error_outcomes,          \* job -> error outcomes handed to retry() so far
    last_retry,              \* job -> what the latest retry() call did
    completions,             \* job -> completed answers handed on so far
    events,                  \* webhooks and polls delivered so far
    bulk_notices,            \* job -> times the bulk job was told of its end
    sufficient,              \* the caller's quota covers what is requested
    call,                    \* a function of the status model, applied alone
    ready                    \* coroutines the event loop runs before a woken call

vars ==
    <<engine, store, bulk_store, imagination_conditions, tasks, started,
      task_result, handler, usages, requests, uploads, expired, missed,
      error_outcomes, last_retry, completions, events, bulk_notices,
      sufficient, call, ready>>

IdleHandler ==
    [pc |-> "idle", ctx |-> "none", job |-> 0, tid |-> 0,
     im |-> NewImagination(NoBulk), bk |-> NewImaginationBulk(0),
     data |-> "none", cause |-> "none", loaded |-> "none"]

Idle(h) == handler[h].pc = "idle"

\* a new coroutine takes the first idle slot
Free(h) == Idle(h) /\ \A x \in Handlers : x < h => ~Idle(x)

Min(a, b) == IF a < b THEN a ELSE b

\* ------------------------------------------------ Completion Coordinator
\* Where the suspended imagine_request calls of a job are:
\*   waiting    in condition.wait() on the registered condition
\*   late       the same, but release_condition ran between the provider's
\*              answer and the wait
\*   orphaned   in condition.wait() on a condition deleted from the registry
\*   notified   woken by notify_all, not yet running again
\*   reloading  in Imagination.get_item after cleanup_condition
NoTasks ==
    [waiting |-> 0, late |-> 0, orphaned |-> 0, notified |-> 0, reloading |-> 0]

\* cleanup_condition: the entry is deleted; whoever is suspended on the deleted
\* condition object can no longer be reached through the registry
cleanup_condition(ts) ==
    [ts EXCEPT !.waiting = 0, !.late = 0,
               !.orphaned = @ + ts.waiting + ts.late]

\* release_condition: get_condition (creating the entry when absent), notify_all
\* on the registered condition, cleanup_condition
release_condition(ts) ==
    [ts EXCEPT !.waiting = 0, !.late = 0,
               !.notified = @ + ts.waiting + ts.late]

\* calls of job j that have the provider's answer and are not yet waiting
BeforeWait(j) ==
    {handler[h].tid : h \in {x \in Handlers :
        /\ handler[x].job = j
        /\ handler[x].ctx = "request"
        /\ handler[x].pc = "save_requested"}}

\* release_condition without cleanup_condition: the entry that get_condition
\* made stays in the registry
Released_kept(j) ==
    /\ imagination_conditions' = [imagination_conditions EXCEPT ![j] = TRUE]
    /\ tasks' = [tasks EXCEPT ![j] = release_condition(@)]
    /\ missed' = [missed EXCEPT ![j] = @ \cup BeforeWait(j)]

\* the registry, the suspended calls and the record of early releases after
\* release_condition(j)
Released(j) ==
    /\ imagination_conditions' = [imagination_conditions EXCEPT ![j] = FALSE]
    /\ tasks' = [tasks EXCEPT ![j] = release_condition(@)]
    /\ missed' = [missed EXCEPT ![j] = @ \cup BeforeWait(j)]

NotReleased ==
    UNCHANGED <<imagination_conditions, tasks, missed>>

\* ------------------------------------------------------- the event loop
\* notify_all hands the woken calls to the loop's ready queue: they run in the
\* next iteration, after the callbacks that are already queued (each coroutine
\* whose awaited I/O has completed runs once, up to its next await) and before
\* any I/O that completes later.
AnyNotified(ts) == \E j \in Jobs : ts[j].notified > 0

\* coroutine h may run now
Turn(h) == AnyNotified(tasks) => h \in ready

\* coroutine h has run up to its next await
Ran(h) ==
    ready' = IF AnyNotified(tasks')
             THEN (IF AnyNotified(tasks) THEN ready ELSE Handlers) \ {h}
             ELSE {}

\* ------------------------------------------------------ Imagination.retry
\* retry() giving up one error outcome early (retry_count + 1 < max_retries)
retry_early(rec) ==
    LET rc == get_retry_count(rec.im.meta_data) IN
    IF rc + 1 < max_retries
    THEN [rec EXCEPT !.im.meta_data = Merge(@, [k \in {"retry_count"} |-> rc + 1]),
                     !.pc = "retry_save"]
    ELSE [rec EXCEPT !.im.task_status = "error", !.im.status = "error",
                     !.pc = "fail_save", !.cause = "exhausted"]

\* the in-memory job after retry() up to its first suspension
retry(rec) ==
    LET rc == get_retry_count(rec.im.meta_data) IN
    IF rc < max_retries
    THEN [rec EXCEPT !.im.meta_data = Merge(@, [k \in {"retry_count"} |-> rc + 1]),
                     !.pc = "retry_save"]
    ELSE [rec EXCEPT !.im.task_status = "error", !.im.status = "error",
                     !.pc = "fail_save", !.cause = "exhausted"]

\* Imagination.fail up to its first suspension
fail(rec, cause) ==
    [rec EXCEPT !.im.task_status = "error", !.im.status = "error",
                !.pc = "fail_save", !.cause = cause]

\* process_imagine_webhook(imagination, data) up to its first suspension
process_imagine_webhook(rec) ==
    CASE rec.data = "error" -> retry(rec)
      [] rec.data = "completed" -> [rec EXCEPT !.pc = "process_result"]
      [] OTHER -> [rec EXCEPT !.im.task_status = task_status(rec.data),
                              !.pc = "update_save"]

\* the record of outcomes: data was handed to process_imagine_webhook for job j
\* and out is what came of it
Recorded(j, data, out) ==
    /\ IF data = "error"
       THEN /\ error_outcomes' =
                 [error_outcomes EXCEPT ![j] = Min(@ + 1, max_retries + 1)]
            /\ last_retry' =
                 [last_retry EXCEPT
                    ![j] = IF out.pc = "retry_save" THEN "retry" ELSE "fail"]
       ELSE UNCHANGED <<error_outcomes, last_retry>>
    /\ completions' =
         IF data = "completed"
         THEN [completions EXCEPT ![j] = Min(@ + 1, MaxUploads)]
         ELSE completions
    /\ UNCHANGED <<bulk_notices, sufficient, call>>

\* update_imagination_status: if imagination.status.is_done: release_condition
PollRelease(rec) == rec.ctx = "poll" /\ is_done(rec.im.status)

\* the coroutine in handler h ends; rec is its final state and release tells
\* whether it ends on release_condition
Finish(h, rec, release) ==
    /\ handler' = [handler EXCEPT ![h] = IdleHandler]
    /\ IF rec.ctx = "request"
       THEN task_result' = [task_result EXCEPT
                ![rec.job] = @ \cup {<<"inline", rec.im.status>>}]
       ELSE UNCHANGED task_result
    /\ IF release THEN Released(rec.job) ELSE NotReleased

\* ------------------------------------------------------------ the routes
\* ImaginationRouter.create_item: the stored job is handed to start_processing
create_item(h, j) ==
    /\ Free(h)
    /\ engine[j] # "none"
    /\ store[j].bulk = NoBulk
    /\ started[j] = 0
    /\ started' = [started EXCEPT ![j] = 1]
    /\ handler' = [handler EXCEPT ![h] =
         [IdleHandler EXCEPT !.pc = "meter_cost", !.ctx = "request",
                             !.job = j, !.tid = 1,
                             !.im = [store[j] EXCEPT !.task_status = "init"]]]
    /\ UNCHANGED <<engine, bulk_store, store, imagination_conditions, tasks,
                   task_result, usages, requests, uploads, expired, missed,
                   error_outcomes, last_retry, completions, events,
                   bulk_notices, sufficient, call>>
    /\ Turn(h)
    /\ Ran(h)

\* ------------------------------------------------------- imagine_request
\* imagine_request without line 315: the call goes on to the provider with no
\* usage created
meter_cost_skipped(h) ==
    LET rec == handler[h] IN
    /\ rec.pc = "meter_cost"
    /\ handler' = [handler EXCEPT ![h].pc = "imagine"]
    /\ UNCHANGED <<engine, bulk_store, store, imagination_conditions, tasks,
                   started, task_result, usages, requests, uploads, expired,
                   missed, error_outcomes, last_retry, completions, events,
                   bulk_notices, sufficient, call>>
    /\ Turn(h)
    /\ Ran(h)

\* usage = await meter_cost(imagination): the usage is created, usage_id is
\* set and the job is saved
meter_cost(h) ==
    LET rec == handler[h] IN
    /\ rec.pc = "meter_cost"
    /\ usages' = [usages EXCEPT ![rec.job][rec.tid] = "active"]
    /\ store' = [store EXCEPT ![rec.job] = [rec.im EXCEPT !.usage_id = rec.tid]]
    /\ handler' = [handler EXCEPT ![h].im.usage_id = rec.tid,
                                  ![h].pc = "imagine"]
    /\ UNCHANGED <<engine, bulk_store, imagination_conditions, tasks, started,
                   task_result, requests, uploads, expired, missed,
                   error_outcomes, last_retry, completions, events,
                   bulk_notices, sufficient, call>>
    /\ Turn(h)
    /\ Ran(h)

\* imagine_engine.imagine(imagination) answers raw; lines 330-335 take the
\* answer into the in-memory job
imagine(h, raw) ==
    LET rec == handler[h]
        s == engine_status(engine[rec.job], raw)
        id == IF core(engine[rec.job]) = "dalle" THEN 0 ELSE rec.tid
    IN
    /\ rec.pc = "imagine"
    /\ raw \in ProviderRaw(engine[rec.job])
    /\ requests' = [requests EXCEPT ![rec.job] = Min(@ + 1, MaxTasks)]
    /\ handler' = [handler EXCEPT ![h] =
         [rec EXCEPT !.im.meta_data = Merge(@, [k \in {"id"} |-> id]),
                     !.im.error = response_error(engine[rec.job], s),
                     !.im.status = s,
                     !.im.task_status = task_status(s),
                     !.data = s,
                     !.pc = "save_requested"]]
    /\ UNCHANGED <<engine, bulk_store, store, imagination_conditions, tasks,
                   started, task_result, usages, uploads, expired, missed,
                   error_outcomes, last_retry, completions, events,
                   bulk_notices, sufficient, call>>
    /\ Turn(h)
    /\ Ran(h)

\* except Exception in imagine_request: the accounting call or the provider
\* call raises; release_condition runs before fail
imagine_request_except(h) ==
    LET rec == handler[h] IN
    /\ rec.ctx = "request"
    /\ rec.pc \in {"meter_cost", "imagine"}
    /\ handler' = [handler EXCEPT ![h] =
         fail([rec EXCEPT !.im.error = "exception"], "exception")]
    /\ Released(rec.job)
    /\ UNCHANGED <<engine, bulk_store, store, started, task_result, usages,
                   requests, uploads, expired, error_outcomes, last_retry,
                   completions, events, bulk_notices, sufficient, call>>
    /\ Turn(h)
    /\ Ran(h)

\* save_requested without line 338: a Dalle call takes the condition and
\* waits on it like every other call
save_requested_waits(h) ==
    LET rec == handler[h]
        j == rec.job
        at == IF rec.tid \in missed[j] THEN "late" ELSE "waiting"
    IN
    /\ rec.pc = "save_requested"
    /\ store' = [store EXCEPT ![j] = rec.im]
    /\ handler' = [handler EXCEPT ![h] = IdleHandler]
    /\ imagination_conditions' = [imagination_conditions EXCEPT ![j] = TRUE]
    /\ tasks' = [tasks EXCEPT ![j][at] = @ + 1]
    /\ missed' = [missed EXCEPT ![j] = @ \ {rec.tid}]
    /\ UNCHANGED <<engine, bulk_store, started, task_result, usages, requests,
                   uploads, expired, events, error_outcomes, last_retry,
                   completions, bulk_notices, sufficient, call>>
    /\ Turn(h)
    /\ Ran(h)

\* save_report("... has been requested") completes; a Dalle answer is processed
\* inline, any other call takes the condition and waits on it
save_requested(h) ==
    LET rec == handler[h]
        j == rec.job
        out == process_imagine_webhook(rec)
        at == IF rec.tid \in missed[j] THEN "late" ELSE "waiting"
    IN
    /\ rec.pc = "save_requested"
    /\ store' = [store EXCEPT ![j] = rec.im]
    /\ IF core(engine[j]) = "dalle"
       THEN /\ handler' = [handler EXCEPT ![h] = out]
            /\ Recorded(j, rec.data, out)
            /\ NotReleased
       ELSE /\ handler' = [handler EXCEPT ![h] = IdleHandler]
            /\ imagination_conditions' =
                 [imagination_conditions EXCEPT ![j] = TRUE]
            /\ tasks' = [tasks EXCEPT ![j][at] = @ + 1]
            /\ missed' = [missed EXCEPT ![j] = @ \ {rec.tid}]
            /\ UNCHANGED <<error_outcomes, last_retry, completions,
                           bulk_notices, sufficient, call>>
    /\ UNCHANGED <<engine, bulk_store, started, task_result, usages, requests,
                   uploads, expired, events>>
    /\ Turn(h)
    /\ Ran(h)

\* a notified call that runs again without cleanup_condition: an entry made
\* since the release stays in the registry
wake_without_cleanup(j) ==
    /\ tasks[j].notified > 0
    /\ tasks' = [tasks EXCEPT ![j].notified = @ - 1, ![j].reloading = @ + 1]
    /\ UNCHANGED <<engine, bulk_store, store, imagination_conditions, started,
                   task_result, handler, usages, requests, uploads, expired,
                   missed, error_outcomes, last_retry, completions, events,
                   bulk_notices, sufficient, call>>
    /\ ready' = IF AnyNotified(tasks') THEN ready ELSE {}

\* a notified call runs again: condition.wait() returns, cleanup_condition,
\* Imagination.get_item is requested
wake(j) ==
    /\ tasks[j].notified > 0
    /\ tasks' = [tasks EXCEPT ![j] =
         [cleanup_condition(@) EXCEPT !.notified = @ - 1,
                                      !.reloading = @ + 1]]
    /\ imagination_conditions' = [imagination_conditions EXCEPT ![j] = FALSE]
    /\ UNCHANGED <<engine, bulk_store, store, started, task_result, handler,
                   usages, requests, uploads, expired, missed, error_outcomes,
                   last_retry, completions, events, bulk_notices, sufficient,
                   call>>
    /\ ready' = IF AnyNotified(tasks') THEN ready ELSE {}

\* Imagination.get_item answers and imagine_request returns the stored job
get_item(j) ==
    /\ tasks[j].reloading > 0
    /\ tasks' = [tasks EXCEPT ![j].reloading = @ - 1]
    /\ task_result' =
         [task_result EXCEPT ![j] = @ \cup {<<"reload", store[j].status>>}]
    /\ UNCHANGED <<engine, bulk_store, store, imagination_conditions, started,
                   handler, usages, requests, uploads, expired, missed,
                   error_outcomes, last_retry, completions, events,
                   bulk_notices, sufficient, call>>
    /\ UNCHANGED ready

\* ------------------------------------------------- the inbound channels
\* ImaginationRouter.webhook: the job is loaded, the payload parsed and handed
\* to process_imagine_webhook
webhook(h, j, raw) ==
    LET rec == [IdleHandler EXCEPT !.ctx = "webhook", !.job = j,
                                   !.im = store[j],
                                   !.data = webhook_status(engine[j], raw),
                                   !.loaded = store[j].status]
        out == process_imagine_webhook(rec)
    IN
    /\ Free(h)
    /\ engine[j] # "none"
    /\ requests[j] > 0
    /\ core(engine[j]) \in {"midjourney", "replicate"}
    /\ raw \in ProviderRaw(engine[j])
    /\ store[j].status # "cancelled"
    /\ handler' = [handler EXCEPT ![h] = out]
    /\ Recorded(j, rec.data, out)
    /\ events' = Min(events + 1, MaxEvents + MaxLate)
    /\ UNCHANGED <<engine, bulk_store, store, imagination_conditions, tasks,
                   started, task_result, usages, requests, uploads, expired,
                   missed>>
    /\ Turn(h)
    /\ Ran(h)

\* the worker loads a job that is not done and starts
\* update_imagination_status: imagine_engine.result is requested
update_imagination_status(h, j) ==
    /\ Free(h)
    /\ engine[j] # "none"
    /\ core(engine[j]) \in {"midjourney", "replicate"}
    /\ "id" \in DOMAIN store[j].meta_data
    /\ ~is_done(store[j].status)
    /\ handler' = [handler EXCEPT ![h] =
         [IdleHandler EXCEPT !.pc = "result", !.ctx = "poll", !.job = j,
                             !.im = store[j], !.loaded = store[j].status]]
    /\ events' = Min(events + 1, MaxEvents + MaxLate)
    /\ UNCHANGED <<engine, bulk_store, store, imagination_conditions, tasks,
                   started, task_result, usages, requests, uploads, expired,
                   missed, error_outcomes, last_retry, completions,
                   bulk_notices, sufficient, call>>
    /\ Turn(h)
    /\ Ran(h)

\* check_imagination_status: the provider answers raw; error and status are
\* taken from the answer and the answer goes to process_imagine_webhook
check_imagination_status(h, raw) ==
    LET rec == handler[h]
        j == rec.job
        s == engine_status(engine[j], raw)
        got == [rec EXCEPT !.im.error = response_error(engine[j], s),
                           !.im.status = s, !.data = s]
        out == process_imagine_webhook(got)
    IN
    /\ rec.pc = "result"
    /\ core(engine[j]) = "midjourney"
    /\ raw \in ProviderRaw(engine[j])
    /\ handler' = [handler EXCEPT ![h] = out]
    /\ Recorded(j, s, out)
    /\ UNCHANGED <<engine, bulk_store, store, imagination_conditions, tasks,
                   started, task_result, usages, requests, uploads, expired,
                   missed, events>>
    /\ Turn(h)
    /\ Ran(h)

\* except Exception in update_imagination_status: the provider call raises, or
\* the Replicate answer does not make a PredictionModelWebhookData
update_imagination_status_except(h) ==
    LET rec == handler[h] IN
    /\ rec.pc = "result"
    /\ handler' = [handler EXCEPT ![h] =
         fail([rec EXCEPT !.im.error = "exception"], "exception")]
    /\ Released(rec.job)
    /\ UNCHANGED <<engine, bulk_store, store, started, task_result, usages,
                   requests, uploads, expired, error_outcomes, last_retry,
                   completions, events, bulk_notices, sufficient, call>>
    /\ Turn(h)
    /\ Ran(h)

\* ten minutes have passed since the job was created
timeout(j) ==
    /\ engine[j] # "none"
    /\ started[j] > 0
    /\ ~expired[j]
    /\ expired' = [expired EXCEPT ![j] = TRUE]
    /\ UNCHANGED <<engine, bulk_store, store, imagination_conditions, tasks,
                   started, task_result, handler, usages, requests, uploads,
                   missed, error_outcomes, last_retry, completions, events,
                   bulk_notices, sufficient, call>>
    /\ UNCHANGED ready

\* ------------------------------------------- process_imagine_webhook, later
\* the images a completed answer of engine e yields: Midjourney's grid is cut
\* in four, every other engine gives one image
result_entries(e) == IF e = "midjourney" THEN 4 ELSE 1

\* process_imagine_webhook after end_processing: release_condition, then
\* task_status = data.status.task_status and save_report is requested
after_end_processing(rec) ==
    [rec EXCEPT !.im.task_status = task_status(rec.data), !.pc = "update_save"]

\* process_result for the one url of a completed answer: download, crop and
\* upload, which set imagination.results or raise into try_except_wrapper;
\* then end_processing, which has nothing to do for a job without a bulk
process_result(h) ==
    LET rec == handler[h]
        j == rec.job
    IN
    /\ rec.pc = "process_result"
    /\ \E ok \in BOOLEAN :
         LET got == IF ok
                    THEN [rec EXCEPT !.im.results = result_entries(engine[j])]
                    ELSE rec
         IN
         /\ uploads' = [uploads EXCEPT
              ![j] = IF ok THEN Min(@ + 1, MaxUploads) ELSE @]
         /\ IF rec.im.bulk = NoBulk
            THEN /\ handler' = [handler EXCEPT ![h] = after_end_processing(got)]
                 /\ Released(j)
            ELSE /\ handler' = [handler EXCEPT ![h] =
                      [got EXCEPT !.pc = "end_processing"]]
                 /\ NotReleased
    /\ UNCHANGED <<engine, bulk_store, store, started, task_result, usages,
                   requests, expired, error_outcomes, last_retry, completions,
                   events, bulk_notices, sufficient, call>>
    /\ Turn(h)
    /\ Ran(h)

\* update_save with a release_condition after every stored update, terminal
\* or not
update_save_releases(h) ==
    LET rec == handler[h]
        j == rec.job
    IN
    /\ rec.pc = "update_save"
    /\ store' = [store EXCEPT ![j] = rec.im]
    /\ IF ~is_done(rec.data) /\ expired[j]
       THEN /\ handler' = [handler EXCEPT ![h] =
                 fail([rec EXCEPT !.im.error = "Service Timeout"], "timeout")]
            /\ UNCHANGED task_result
            /\ NotReleased
       ELSE Finish(h, rec, TRUE)
    /\ UNCHANGED <<engine, bulk_store, started, usages, requests, uploads,
                   expired, error_outcomes, last_retry, completions, events,
                   bulk_notices, sufficient, call>>
    /\ Turn(h)
    /\ Ran(h)

\* save_report of process_imagine_webhook completes; a non-terminal update of
\* a job older than ten minutes then turns into the service timeout
update_save(h) ==
    LET rec == handler[h]
        j == rec.job
    IN
    /\ rec.pc = "update_save"
    /\ store' = [store EXCEPT ![j] = rec.im]
    /\ IF ~is_done(rec.data) /\ expired[j]
       THEN /\ handler' = [handler EXCEPT ![h] =
                 fail([rec EXCEPT !.im.error = "Service Timeout"], "timeout")]
            /\ UNCHANGED task_result
            /\ NotReleased
       ELSE Finish(h, rec, PollRelease(rec))
    /\ UNCHANGED <<engine, bulk_store, started, usages, requests, uploads,
                   expired, error_outcomes, last_retry, completions, events,
                   bulk_notices, sufficient, call>>
    /\ Turn(h)
    /\ Ran(h)

\* Imagination.fail with the release moved before cancel_usage
fail_save_releases(h) ==
    LET rec == handler[h] IN
    /\ rec.pc = "fail_save"
    /\ store' = [store EXCEPT ![rec.job] = rec.im]
    /\ handler' = [handler EXCEPT ![h].pc = "cancel_usage"]
    /\ Released(rec.job)
    /\ UNCHANGED <<engine, bulk_store, started, task_result, usages, requests,
                   uploads, expired, error_outcomes, last_retry, completions,
                   events, bulk_notices, sufficient, call>>
    /\ Turn(h)
    /\ Ran(h)

\* Imagination.fail: save_report and save_and_emit complete
fail_save(h) ==
    LET rec == handler[h] IN
    /\ rec.pc = "fail_save"
    /\ store' = [store EXCEPT ![rec.job] = rec.im]
    /\ handler' = [handler EXCEPT ![h].pc = "cancel_usage"]
    /\ UNCHANGED <<engine, bulk_store, imagination_conditions, tasks, started,
                   task_result, usages, requests, uploads, expired, missed,
                   error_outcomes, last_retry, completions, events,
                   bulk_notices, sufficient, call>>
    /\ Turn(h)
    /\ Ran(h)

\* cancel_usage(self) at the end of Imagination.fail, and what the caller of
\* fail does next: the timeout branch releases, update_imagination_status
\* releases after a failed retry, the except branches only return
cancel_usage(h) ==
    LET rec == handler[h]
        j == rec.job
    IN
    /\ rec.pc = "cancel_usage"
    /\ usages' = IF rec.im.usage_id = NoUsage THEN usages
                 ELSE [usages EXCEPT ![j][rec.im.usage_id] = "cancelled"]
    /\ Finish(h, rec, \/ rec.cause = "timeout"
                      \/ rec.cause = "exhausted" /\ PollRelease(rec))
    /\ UNCHANGED <<engine, bulk_store, store, started, requests, uploads,
                   expired, error_outcomes, last_retry, completions, events,
                   bulk_notices, sufficient, call>>
    /\ Turn(h)
    /\ Ran(h)

\* Imagination.retry below the ceiling: save_report and save_and_emit complete,
\* create_task(self.start_processing()) starts a new imagine_request on the
\* same object, and the caller of retry goes on to its end
retry_save(h) ==
    LET rec == handler[h]
        j == rec.job
    IN
    /\ rec.pc = "retry_save"
    /\ started[j] < MaxTasks
    /\ store' = [store EXCEPT ![j] = rec.im]
    /\ started' = [started EXCEPT ![j] = @ + 1]
    /\ handler' = [handler EXCEPT ![h] =
         [IdleHandler EXCEPT !.pc = "meter_cost", !.ctx = "request", !.job = j,
                             !.tid = started[j] + 1, !.im = rec.im]]
    /\ IF rec.ctx = "request"
       THEN task_result' = [task_result EXCEPT
                ![j] = @ \cup {<<"inline", rec.im.status>>}]
       ELSE UNCHANGED task_result
    /\ IF PollRelease(rec) THEN Released(j) ELSE NotReleased
    /\ UNCHANGED <<engine, bulk_store, usages, requests, uploads, expired,
                   error_outcomes, last_retry, completions, events,
                   bulk_notices, sufficient, call>>
    /\ Turn(h)
    /\ Ran(h)

\* ------------------------------------------------------ Bulk Orchestrator
\* the children of the bulk job as its queries find them in the collection
completed_tasks ==
    {j \in Jobs : /\ store[j].bulk = TheBulk
                  /\ store[j].status = "completed"
                  /\ store[j].results # 0}

failed_tasks ==
    {j \in Jobs : store[j].bulk = TheBulk /\ store[j].status = "error"}

RECURSIVE SumResults(_)
SumResults(js) ==
    IF js = {} THEN 0
    ELSE LET j == CHOOSE x \in js : TRUE
         IN store[j].results + SumResults(js \ {j})

\* collect_results: one entry per image of every completed child
collect_results == SumResults(completed_tasks)

\* imagine_bulk_request: one child per combination is created, the bulk job is
\* saved as processing and the children are started together
imagine_bulk_request ==
    /\ bulk_store.task_status = "init"
    /\ \A h \in Handlers : Idle(h)
    /\ store' = [j \in Jobs |-> NewImagination(TheBulk)]
    /\ bulk_store' = [bulk_store EXCEPT !.task_status = "processing"]
    /\ started' = [j \in Jobs |-> 1]
    /\ handler' = [h \in Handlers |->
         IF h \in Jobs
         THEN [IdleHandler EXCEPT !.pc = "meter_cost", !.ctx = "request",
                                  !.job = h, !.tid = 1,
                                  !.im = NewImagination(TheBulk)]
         ELSE IdleHandler]
    /\ UNCHANGED <<engine, imagination_conditions, tasks, task_result, usages,
                   requests, uploads, expired, missed, error_outcomes,
                   last_retry, completions, events, bulk_notices, sufficient,
                   call>>
    /\ UNCHANGED ready

\* Imagination.end_processing of a child: the bulk job is loaded and handed to
\* imagine_bulk_result together with the child
end_processing(h) ==
    LET rec == handler[h] IN
    /\ rec.pc = "end_processing"
    /\ handler' = [handler EXCEPT ![h].bk = bulk_store,
                                  ![h].pc = "imagine_bulk_result"]
    /\ bulk_notices' = [bulk_notices EXCEPT ![rec.job] = @ + 1]
    /\ UNCHANGED <<engine, store, bulk_store, imagination_conditions, tasks,
                   started, task_result, usages, requests, uploads, expired,
                   missed, error_outcomes, last_retry, completions, events,
                   sufficient, call>>
    /\ Turn(h)
    /\ Ran(h)

\* imagine_bulk_result: await imagination.save()
imagine_bulk_result(h) ==
    LET rec == handler[h] IN
    /\ rec.pc = "imagine_bulk_result"
    /\ store' = [store EXCEPT ![rec.job] = rec.im]
    /\ handler' = [handler EXCEPT ![h].pc = "completed_tasks"]
    /\ UNCHANGED <<engine, bulk_store, imagination_conditions, tasks, started,
                   task_result, usages, requests, uploads, expired, missed,
                   error_outcomes, last_retry, completions, events,
                   bulk_notices, sufficient, call>>
    /\ Turn(h)
    /\ Ran(h)

\* imagine_bulk_result: the completed children are counted and their results
\* collected into the in-memory bulk job
count_completed(h) ==
    LET rec == handler[h] IN
    /\ rec.pc = "completed_tasks"
    /\ handler' = [handler EXCEPT
         ![h].bk.results = collect_results,
         ![h].bk.total_completed = Cardinality(completed_tasks),
         ![h].pc = "bulk_save_report"]
    /\ UNCHANGED <<engine, store, bulk_store, imagination_conditions, tasks,
                   started, task_result, usages, requests, uploads, expired,
                   missed, error_outcomes, last_retry, completions, events,
                   bulk_notices, sufficient, call>>
    /\ Turn(h)
    /\ Ran(h)

\* imagine_bulk_result: save_report writes the in-memory bulk job
bulk_save_report(h) ==
    LET rec == handler[h] IN
    /\ rec.pc = "bulk_save_report"
    /\ bulk_store' = rec.bk
    /\ handler' = [handler EXCEPT ![h].pc = "imagine_bulk_process"]
    /\ UNCHANGED <<engine, store, imagination_conditions, tasks, started,
                   task_result, usages, requests, uploads, expired, missed,
                   error_outcomes, last_retry, completions, events,
                   bulk_notices, sufficient, call>>
    /\ Turn(h)
    /\ Ran(h)

\* imagine_bulk_process: the failed and completed children are counted; when
\* they are all of the children the bulk job gets its final task_status
imagine_bulk_process(h) ==
    LET rec == handler[h]
        nf == Cardinality(failed_tasks)
        nc == Cardinality(completed_tasks)
    IN
    /\ rec.pc = "imagine_bulk_process"
    /\ IF nf + nc # rec.bk.total_tasks
       THEN /\ handler' = [handler EXCEPT ![h] = after_end_processing(rec)]
            /\ Released(rec.job)
       ELSE /\ handler' = [handler EXCEPT
                 ![h].bk.task_status =
                     IF nf = rec.bk.total_tasks THEN "error" ELSE "completed",
                 ![h].bk.completed_at =
                     IF nf = rec.bk.total_tasks THEN @ ELSE TRUE,
                 ![h].pc = "bulk_final_save"]
            /\ NotReleased
    /\ UNCHANGED <<engine, store, bulk_store, started, task_result, usages,
                   requests, uploads, expired, error_outcomes, last_retry,
                   completions, events, bulk_notices, sufficient, call>>
    /\ Turn(h)
    /\ Ran(h)

\* imagine_bulk_process: the final save_report; back in
\* process_imagine_webhook the child's waiters are released
bulk_final_save(h) ==
    LET rec == handler[h] IN
    /\ rec.pc = "bulk_final_save"
    /\ bulk_store' = rec.bk
    /\ handler' = [handler EXCEPT ![h] = after_end_processing(rec)]
    /\ Released(rec.job)
    /\ UNCHANGED <<engine, store, started, task_result, usages, requests,
                   uploads, expired, error_outcomes, last_retry, completions,
                   events, bulk_notices, sufficient, call>>
    /\ Turn(h)
    /\ Ran(h)

\* ------------------------------------------------------- specifications
AllRaw == MidjourneyRaw \cup ReplicateRaw \cup DalleRaw

InitCommon ==
    /\ imagination_conditions = [j \in Jobs |-> FALSE]
    /\ tasks = [j \in Jobs |-> NoTasks]
    /\ started = [j \in Jobs |-> 0]
    /\ task_result = [j \in Jobs |-> {}]
    /\ handler = [h \in Handlers |-> IdleHandler]
    /\ usages = [j \in Jobs |-> [t \in Tids |-> "none"]]
    /\ requests = [j \in Jobs |-> 0]
    /\ uploads = [j \in Jobs |-> 0]
    /\ expired = [j \in Jobs |-> FALSE]
    /\ missed = [j \in Jobs |-> {}]
    /\ error_outcomes = [j \in Jobs |-> 0]
    /\ last_retry = [j \in Jobs |-> "none"]
    /\ completions = [j \in Jobs |-> 0]
    /\ bulk_notices = [j \in Jobs |-> 0]
    /\ events = 0
    /\ ready = {}
    /\ store = [j \in Jobs |-> NewImagination(NoBulk)]

\* one job created through ImaginationRouter.create_item, no bulk job
Init ==
    /\ InitCommon
    /\ \E e \in Engines : engine = [j \in Jobs |-> IF j = 1 THEN e ELSE "none"]
    /\ bulk_store = NewImaginationBulk(0)
    /\ sufficient = TRUE
    /\ call = NoCall

\* the steps of one job's coroutines, the provider's words drawn from raws
JobStep(raws) ==
    \/ \E h \in Handlers : meter_cost(h)
    \/ \E h \in Handlers, raw \in raws : imagine(h, raw)
    \/ \E h \in Handlers : save_requested(h)
    \/ \E j \in Jobs : wake(j)
    \/ \E j \in Jobs : get_item(j)
    \/ \E h \in Handlers, raw \in raws : check_imagination_status(h, raw)
    \/ \E h \in Handlers : update_save(h)
    \/ \E h \in Handlers : retry_save(h)
    \/ \E h \in Handlers : fail_save(h)
    \/ \E h \in Handlers : cancel_usage(h)

\* completions, exceptions and the clock
JobMore ==
    \/ \E h \in Handlers : imagine_request_except(h)
    \/ \E h \in Handlers : update_imagination_status_except(h)
    \/ \E h \in Handlers : process_result(h)
    \/ \E j \in Jobs : timeout(j)

\* no coroutine is in flight
Quiet == \A h \in Handlers : Idle(h)

\* the first MaxEvents deliveries come at any moment, later ones when no
\* coroutine is in flight
Admit == events < MaxEvents \/ Quiet

\* the inbound channels, at most MaxEvents + MaxLate deliveries
Deliver(raws) ==
    \/ \E h \in Handlers, j \in Jobs, raw \in raws :
         /\ Admit
         /\ events < MaxEvents + MaxLate
         /\ webhook(h, j, raw)
    \/ \E h \in Handlers, j \in Jobs :
         /\ Admit
         /\ events < MaxEvents + MaxLate
         /\ update_imagination_status(h, j)

Next ==
    \/ \E h \in Handlers, j \in Jobs : create_item(h, j)
    \/ JobStep(AllRaw)
    \/ JobMore
    \/ Deliver(AllRaw)

Spec == Init /\ [][Next]_vars

\* The retry policy on its own: the provider only ever reports failure (or that
\* it is still working), through the answer to imagine, webhooks and polls, as
\* often as it likes.
FailingRaw == {"running", "processing", "error", "failed", "empty"}
ErrorRaw == {"error", "failed"}

NextRetry ==
    \/ \E h \in Handlers, j \in Jobs : create_item(h, j)
    \/ JobStep(FailingRaw)
    \/ \E h \in Handlers, j \in Jobs, raw \in ErrorRaw :
         Admit /\ webhook(h, j, raw)
    \/ \E h \in Handlers, j \in Jobs :
         Admit /\ update_imagination_status(h, j)

SpecRetry == Init /\ [][NextRetry]_vars

\* imagine_request on its own: the calls of one job from create_item to their
\* return or their wait, with every answer and every exception of the
\* accounting service and of the provider. The only deliveries are webhooks
\* that report a failure, which start the further calls of the job, and they
\* arrive when no coroutine is in flight.
NextRequest ==
    \/ \E h \in Handlers, j \in Jobs : create_item(h, j)
    \/ \E h \in Handlers : meter_cost(h)
    \/ \E h \in Handlers, raw \in AllRaw : imagine(h, raw)
    \/ \E h \in Handlers : imagine_request_except(h)
    \/ \E h \in Handlers : save_requested(h)
    \/ \E j \in Jobs : wake(j)
    \/ \E j \in Jobs : get_item(j)
    \/ \E h \in Handlers : process_result(h)
    \/ \E h \in Handlers : update_save(h)
    \/ \E h \in Handlers : retry_save(h)
    \/ \E h \in Handlers : fail_save(h)
    \/ \E h \in Handlers : cancel_usage(h)
    \/ \E h \in Handlers, j \in Jobs, raw \in ErrorRaw :
         /\ Quiet
         /\ events < MaxEvents + MaxLate
         /\ webhook(h, j, raw)

SpecRequest == Init /\ [][NextRequest]_vars

\* Updates on their own: the provider only ever reports that it is still
\* working, in its answer to imagine, in its webhooks and in its answers to
\* the poll, and the clock may pass the ten minutes at any moment.
OngoingRaw == {"running", "processing"}

NextUpdate ==
    \/ \E h \in Handlers, j \in Jobs : create_item(h, j)
    \/ \E h \in Handlers : meter_cost(h)
    \/ \E h \in Handlers, raw \in OngoingRaw : imagine(h, raw)
    \/ \E h \in Handlers : save_requested(h)
    \/ \E j \in Jobs : wake(j)
    \/ \E j \in Jobs : get_item(j)
    \/ \E h \in Handlers, raw \in OngoingRaw : check_imagination_status(h, raw)
    \/ \E h \in Handlers : update_save(h)
    \/ \E h \in Handlers : fail_save(h)
    \/ \E h \in Handlers : cancel_usage(h)
    \/ \E j \in Jobs : timeout(j)
    \/ Deliver(OngoingRaw)

SpecUpdate == Init /\ [][NextUpdate]_vars

\* Cancellation on its own: Replicate accepts the prediction and from then on
\* only ever reports it as canceled, in its webhooks and in its answers to
\* the poll.
CancelRaw == {"canceled"}

NextCancel ==
    \/ \E h \in Handlers, j \in Jobs : create_item(h, j)
    \/ \E h \in Handlers : meter_cost(h)
    \/ \E h \in Handlers, raw \in OngoingRaw : imagine(h, raw)
    \/ \E h \in Handlers : save_requested(h)
    \/ \E j \in Jobs : wake(j)
    \/ \E j \in Jobs : get_item(j)
    \/ \E h \in Handlers : update_imagination_status_except(h)
    \/ \E h \in Handlers : retry_save(h)
    \/ \E h \in Handlers : fail_save(h)
    \/ \E h \in Handlers : cancel_usage(h)
    \/ Deliver(CancelRaw)

SpecCancel == Init /\ [][NextCancel]_vars

\* The Status Model on its own: one function is applied to one argument.
InitStatus ==
    /\ InitCommon
    /\ engine = [j \in Jobs |-> "none"]
    /\ bulk_store = NewImaginationBulk(0)
    /\ sufficient = TRUE
    /\ \/ \E s \in ImaginationStatus :
            call = [NoCall EXCEPT !.f = "is_done", !.raw = s]
       \/ \E f \in Normalisers, raw \in ProviderWords :
            call = [NoCall EXCEPT !.f = f, !.raw = raw]
       \/ \E v \in PercentageValues :
            call = [NoCall EXCEPT !.f = "validate_percentage", !.value = v]
       \/ \E raw \in MappingTable("BaseReplicate._status") :
            call = [NoCall EXCEPT !.f = "channels", !.raw = raw]
       \/ \E s \in ImaginationStatus :
            call = [NoCall EXCEPT !.f = "revalidate", !.raw = s]

Untouched ==
    UNCHANGED <<engine, store, bulk_store, imagination_conditions, tasks,
                started, task_result, handler, usages, requests, uploads,
                expired, missed, error_outcomes, last_retry, completions,
                events, bulk_notices, sufficient, ready>>

\* ImaginationStatus.is_done
apply_is_done ==
    /\ call.f = "is_done"
    /\ ~call.returned
    /\ call' = [call EXCEPT !.returned = TRUE, !.flag = is_done(call.raw)]
    /\ Untouched

\* _status of an adapter, from_midjourney, from_replicate
apply_normaliser ==
    /\ call.f \in Normalisers
    /\ ~call.returned
    /\ call' = [call EXCEPT !.returned = TRUE,
                            !.status = Normalise(call.f, call.raw)]
    /\ Untouched

\* validate_percentage of EnginesResponse, EnginesDetails, ImagineWebhookData
apply_validate_percentage ==
    /\ call.f = "validate_percentage"
    /\ ~call.returned
    /\ call' = [call EXCEPT
         !.returned = TRUE,
         !.number = validate_percentage(call.value).number,
         !.raised = validate_percentage(call.value).raised]
    /\ Untouched

\* PredictionModelWebhookData.validate_status applied to a status that is
\* already canonical, as in PredictionModelWebhookData(**result.model_dump())
revalidate(s) == from_replicate(s)

\* one word of Replicate on both channels: the route parses the webhook
\* payload, the poll takes the adapter's result() and validates it again
apply_channels ==
    /\ call.f = "channels"
    /\ ~call.returned
    /\ call' = [call EXCEPT
         !.returned = TRUE,
         !.status = webhook_status("flux_1.1", call.raw),
         !.polled = revalidate(engine_status("flux_1.1", call.raw))]
    /\ Untouched

\* the validation of the poll applied to a canonical status
apply_revalidate ==
    /\ call.f = "revalidate"
    /\ ~call.returned
    /\ call' = [call EXCEPT !.returned = TRUE, !.status = revalidate(call.raw)]
    /\ Untouched

NextStatus ==
    \/ apply_is_done
    \/ apply_normaliser
    \/ apply_validate_percentage
    \/ apply_channels
    \/ apply_revalidate

SpecStatus == InitStatus /\ [][NextStatus]_vars

\* One bulk job through ImaginationRouter.create_bulk_item: total_tasks is the
\* number of combinations, each of which becomes a child job. The providers
\* answer that they are working or done, or the call raises; error answers and
\* the retries they start are SpecRetry's matter, and the children are younger
\* than ten minutes.
BulkEngines == {"midjourney", "dalle"}
BulkRaw == {"running", "completed", "image"}

InitBulk ==
    /\ InitCommon
    /\ engine \in [Jobs -> BulkEngines]
    /\ bulk_store = NewImaginationBulk(MaxCombinations)
    /\ sufficient \in BOOLEAN
    /\ call = NoCall

ChildStep ==
    \/ \E h \in Handlers : meter_cost(h)
    \/ \E h \in Handlers, raw \in BulkRaw : imagine(h, raw)
    \/ \E h \in Handlers : imagine_request_except(h)
    \/ \E h \in Handlers : save_requested(h)
    \/ \E j \in Jobs : wake(j)
    \/ \E j \in Jobs : get_item(j)
    \/ \E h \in Handlers, raw \in BulkRaw : check_imagination_status(h, raw)
    \/ \E h \in Handlers : update_imagination_status_except(h)
    \/ \E h \in Handlers : process_result(h)
    \/ \E h \in Handlers : update_save(h)
    \/ \E h \in Handlers : fail_save(h)
    \/ \E h \in Handlers : cancel_usage(h)

BulkStep ==
    \/ \E h \in Handlers : end_processing(h)
    \/ \E h \in Handlers : imagine_bulk_result(h)
    \/ \E h \in Handlers : count_completed(h)
    \/ \E h \in Handlers : bulk_save_report(h)
    \/ \E h \in Handlers : imagine_bulk_process(h)
    \/ \E h \in Handlers : bulk_final_save(h)

NextBulk ==
    \/ imagine_bulk_request
    \/ ChildStep
    \/ BulkStep
    \/ Deliver(BulkRaw)

SpecBulk == InitBulk /\ [][NextBulk]_vars

\* ------------------------------------------------------------ the claims
\* no coroutine holds job j
AtRest(j) == \A h \in Handlers : handler[h].job # j

\* the suspended calls of job j
Blocked(j) == tasks[j].waiting + tasks[j].late + tasks[j].orphaned

\* C1: a job's results are non-empty if and only if its status is completed;
\* stated for the stored job whenever no coroutine is working on it, so that
\* the moments between two writes of one handler do not count
C1_ResultsIffCompleted ==
    \A j \in Jobs :
        (engine[j] # "none" /\ AtRest(j)) =>
            ((store[j].results # 0) <=> (store[j].status = "completed"))

\* what reprocessing does: upload, retry, permanent failure with its
\* accounting reversal, bulk-counter update
Reprocessing ==
    {"process_result", "retry_save", "fail_save", "cancel_usage",
     "end_processing", "imagine_bulk_result", "completed_tasks",
     "bulk_save_report", "imagine_bulk_process", "bulk_final_save"}

\* C2: a webhook for a job that is already completed, error or cancelled is
\* acknowledged without reprocessing: the handler that loaded such a job never
\* uploads, retries, fails the job or updates the bulk counters
C2_TerminalWebhookAcknowledged ==
    \A h \in Handlers :
        (handler[h].ctx = "webhook" /\ is_done(handler[h].loaded)) =>
            handler[h].pc \notin Reprocessing

\* job j has run to a standstill: no coroutine is in flight and no woken call
\* is still to run, so only a webhook or a poll can make anything happen
Standstill(j) ==
    /\ \A h \in Handlers : Idle(h)
    /\ tasks[j].notified = 0
    /\ tasks[j].reloading = 0

\* C3: a release is never lost: once everything has run as far as it can, no
\* call is left suspended in the wait because release_condition ran between
\* its provider request and its wait
C3_ReleaseNeverLost ==
    \A j \in Jobs : Standstill(j) => tasks[j].late = 0

\* C4: the first completed answer of either channel wakes every blocked
\* waiter: when that delivery runs release_condition, no call of the job is
\* left suspended
C4_FirstCompletedWakesWaiter ==
    [][\A h \in Handlers :
         (/\ handler[h].pc = "process_result"
          /\ handler[h].ctx \in {"webhook", "poll"}
          /\ completions[handler[h].job] = 1
          /\ handler'[h].pc = "update_save") =>
             Blocked(handler[h].job)' = 0]_vars

\* retry_count of the stored job
StoredRetryCount(j) == get_retry_count(store[j].meta_data)

\* C5: retry_count starts at 0, never exceeds the ceiling, and every retry
\* (the save in Imagination.retry that is followed by a new start_processing)
\* raises the stored retry_count by exactly 1
C5_RetryCountByOne ==
    /\ (\A j \in Jobs : started[j] = 0 => StoredRetryCount(j) = 0)
    /\ [](\A j \in Jobs : StoredRetryCount(j) \in 0..max_retries)
    /\ [][\A h \in Handlers :
            (handler[h].pc = "retry_save" /\ handler'[h].pc # "retry_save") =>
                StoredRetryCount(handler[h].job)' =
                    StoredRetryCount(handler[h].job) + 1]_vars

C7_TimeoutWithoutDelivery ==
    \A j \in Jobs :
        (/\ expired[j]
         /\ events = 0
         /\ requests[j] > 0
         /\ ~is_done(store[j].status)
         /\ store[j].status \notin {"draft", "init"}
         /\ Standstill(j)) =>
            /\ store[j].status = "error"
            /\ store[j].error = "Service Timeout"
            /\ usages[j][store[j].usage_id] = "cancelled"
            /\ Blocked(j) = 0

\* C8: after an exception of the adapter (imagine during submit, once the
\* usage is reserved, or result during a poll) or a service timeout,
\* Imagination.fail is reached only with the retry budget used up
C8_ExceptionsAndTimeoutsRetried ==
    \A h \in Handlers :
        (/\ handler[h].pc = "fail_save"
         /\ handler[h].cause \in {"exception", "timeout"}
         /\ handler[h].ctx = "request" =>
              handler[h].im.usage_id = handler[h].tid) =>
            get_retry_count(handler[h].im.meta_data) >= max_retries

\* total_completed + total_failed of the stored bulk job
BulkSum == bulk_store.total_completed + bulk_store.total_failed

\* C9: total_completed + total_failed of the bulk job never decreases and
\* never exceeds total_tasks
C9_BulkSumMonotone ==
    /\ [](BulkSum <= bulk_store.total_tasks)
    /\ [][BulkSum' >= BulkSum]_vars

\* C10: with no coroutine in flight, the bulk job's task_status is terminal
\* (completed or error) exactly when total_completed + total_failed equals
\* total_tasks
C10_TerminalIffAllCounted ==
    (\A h \in Handlers : Idle(h)) =>
        ((bulk_store.task_status \in {"completed", "error"}) <=>
            (BulkSum = bulk_store.total_tasks))

\* the stored bulk job is terminal
BulkTerminal == bulk_store.task_status \in {"completed", "error"}

\* C12 as stated: a terminal bulk job carries its completion time, whether it
\* is completed or error
C12_TerminalHasCompletedAt ==
    BulkTerminal => bulk_store.completed_at

\* every child of the bulk job has reached a terminal status and nothing is
\* left to run or to deliver
ChildrenDone ==
    /\ bulk_store.task_status # "init"
    /\ \A j \in Jobs : is_done(store[j].status) /\ Standstill(j)

\* the coroutines run one after the other: a coroutine moves only when those
\* before it have finished, and a webhook or poll arrives only when none is in
\* flight
NextSequential ==
    /\ NextBulk
    /\ \A h \in Handlers :
          handler'[h] # handler[h] => \A g \in Handlers : g < h => Idle(g)
    /\ events' # events => Quiet

SpecSequential == InitBulk /\ [][NextSequential]_vars

\* C11: completing the children in any interleaving leaves the bulk job with
\* the totals a sequential run leaves (under SpecSequential the formula
\* holds): the last scan has seen every child, so total_completed counts the
\* completed children and results holds their images
C11_OrderIndependent ==
    ChildrenDone =>
        /\ bulk_store.total_completed = Cardinality(completed_tasks)
        /\ bulk_store.results = collect_results

\* C13: when every child is terminal, k >= 1 of them completed with their
\* images and m >= 1 failed for good, the bulk job is completed with
\* total_completed = k, total_failed = m and one errors entry per failed child
C13_PartialFailure ==
    (ChildrenDone /\ completed_tasks # {} /\ failed_tasks # {}) =>
        /\ bulk_store.task_status = "completed"
        /\ bulk_store.total_completed = Cardinality(completed_tasks)
        /\ bulk_store.total_failed = Cardinality(failed_tasks)
        /\ bulk_store.errors = Cardinality(failed_tasks)

\* C14: every child's terminal transition has told the bulk job exactly once:
\* when all has come to rest, each child stored as completed with its images
\* or as failed was handed to the bulk job one time
C14_NotifiedExactlyOnce ==
    ChildrenDone =>
        \A j \in completed_tasks \cup failed_tasks : bulk_notices[j] = 1

\* the call of handler h is the first imagine_request of a Dalle job, holding
\* the provider's completed answer, and no webhook has reached the job
DalleCompleted(h) ==
    /\ handler[h].ctx = "request"
    /\ core(engine[handler[h].job]) = "dalle"
    /\ handler[h].data = "completed"
    /\ events = 0

C16_WebhookCompletedSetsStatus ==
    [][\A h \in Handlers :
         (/\ handler[h].ctx = "webhook"
          /\ handler[h].data = "completed"
          /\ ~is_done(handler[h].loaded)
          /\ handler[h].loaded # "draft"
          /\ \A g \in Handlers \ {h} : Idle(g)
          /\ handler[h].pc = "update_save"
          /\ Idle(h)') =>
             store'[handler[h].job].status = "completed"]_vars

\* the call in handler h holds the usage that meter_cost created for it
Reserved(h) ==
    /\ handler[h].im.usage_id = handler[h].tid
    /\ usages[handler[h].job][handler[h].tid] # "none"

\* C17: in every call of imagine_request the provider is contacted only after
\* meter_cost has created the usage of that call, and a call whose meter_cost
\* does not succeed goes to Imagination.fail with status error and contacts
\* nobody
C17_ProviderAfterReservation ==
    [][/\ \A j \in Jobs :
            requests'[j] # requests[j] =>
                \E h \in Handlers :
                    /\ handler[h].job = j
                    /\ handler[h].ctx = "request"
                    /\ handler[h].pc = "imagine"
                    /\ handler'[h].pc = "save_requested"
                    /\ Reserved(h)
       /\ \A h \in Handlers :
            (/\ handler[h].pc = "meter_cost"
             /\ handler'[h].pc \notin {"meter_cost", "imagine"}) =>
                /\ handler'[h].pc = "fail_save"
                /\ handler'[h].im.status = "error"
                /\ ~Reserved(h)
                /\ requests' = requests]_vars

\* a second call of a job has just contacted the provider, after a call of
\* the same job whose reservation failed
C17_Witness ==
    \E h \in Handlers :
        /\ handler[h].pc = "save_requested"
        /\ handler[h].tid >= 2
        /\ Reserved(h)
        /\ requests[handler[h].job] < started[handler[h].job]

\* C18: creating a bulk job checks the aggregate cost against the caller's
\* quota before any child is created: with a quota that does not cover it no
\* child job exists
C18_QuotaBeforeChildren ==
    ~sufficient => \A j \in Jobs : store[j].bulk # TheBulk

\* the provider has nothing more to say about child j: the child failed, or
\* its completed answer was processed
Settled(j) ==
    /\ is_done(store[j].status)
    /\ store[j].status = "error" \/ completions[j] > 0

\* C20: a synchronous bulk request returns for every combination of child
\* outcomes: once every child is settled and no coroutine is left to run, the
\* start_processing call of every child has returned, so asyncio.gather and
\* with it imagine_bulk_request return
C20_SyncBulkReturns ==
    (ChildrenDone /\ \A j \in Jobs : Settled(j)) =>
        \A j \in Jobs : Blocked(j) = 0

\* the step of handler h runs release_condition: the except branches of
\* imagine_request and update_imagination_status, and process_imagine_webhook
\* after the uploads of a completed answer
ReleaseStep(h) ==
    \/ /\ handler[h].pc \in {"meter_cost", "imagine", "result"}
       /\ handler'[h].pc = "fail_save"
       /\ handler'[h].cause = "exception"
    \/ /\ handler[h].pc = "process_result"
       /\ handler'[h].pc = "update_save"

\* no call of job j waits on the registered condition
NoWaiter(j) == tasks[j].waiting + tasks[j].late = 0

\* C19: release_condition for a job with no registered waiter changes
\* nothing: the caller goes on to its next statement, no suspended call is
\* woken, and the registry has no entry for the job afterwards
C19_ReleaseWithoutWaiter ==
    [][\A h \in Handlers :
         (ReleaseStep(h) /\ NoWaiter(handler[h].job)) =>
             /\ tasks'[handler[h].job] = tasks[handler[h].job]
             /\ ~imagination_conditions'[handler[h].job]]_vars

\* release_condition has just run in the except branch of a call of a job
\* that nobody waits for
C19_Witness ==
    \E h \in Handlers :
        /\ handler[h].pc = "fail_save"
        /\ handler[h].cause = "exception"
        /\ tasks[handler[h].job] = NoTasks
        /\ ~imagination_conditions[handler[h].job]
        /\ handler[h].tid >= 2

\* C21 as stated: is_done is true exactly for completed, error and cancelled
C21_TerminalStatuses ==
    (call.f = "is_done" /\ call.returned) =>
        (call.flag <=> call.raw \in {"completed", "error", "cancelled"})

\* C21: is_done is true exactly for done, completed, error and cancelled, and
\* false for every other status of the enumeration
C21_TerminalStatusesWithDone ==
    (call.f = "is_done" /\ call.returned) =>
        (call.flag <=> call.raw \in {"done", "completed", "error", "cancelled"})

C21_Witness ==
    call.f = "is_done" /\ call.returned /\ call.raw = "done" /\ call.flag

\* C22: every status normaliser maps a provider word that is not in its
\* mapping table to error
C22_UnknownIsError ==
    (call.f \in Normalisers /\ call.returned
        /\ call.raw \notin MappingTable(call.f)) =>
            call.status = "error"

\* Replicate's own word for a cancelled prediction is unknown to
\* from_replicate and has been mapped
C22_Witness ==
    /\ call.f = "from_replicate"
    /\ call.returned
    /\ call.raw = "canceled"
    /\ call.status = "error"

\* C23 as stated: whatever validate_percentage accepts, the percentage it
\* gives lies in -1..100, and None gives -1
C23_PercentageInRange ==
    (call.f = "validate_percentage" /\ call.returned /\ ~call.raised) =>
        /\ call.number \in -1..100
        /\ call.value.kind = "none" => call.number = -1

\* a handler of job j that ends Imagination.fail after retry() found the
\* ceiling reached
PermanentFailureEnds(h) ==
    /\ handler[h].pc = "cancel_usage"
    /\ handler[h].cause = "exhausted"
    /\ handler'[h].pc # "cancel_usage"

\* C24: when a webhook or a poll fails a job permanently because the retry
\* ceiling is exhausted, the callers waiting on the job's condition are
\* released: none is still waiting when that handler has finished
C24_PermanentFailureReleases ==
    [][\A h \in Handlers :
         (PermanentFailureEnds(h) /\ handler[h].ctx \in {"webhook", "poll"}) =>
             tasks'[handler[h].job].waiting = 0]_vars

\* C25: once a job has failed permanently (Imagination.fail has run to its
\* end, its cancel_usage included), no reservation that meter_cost created
\* for the job in any attempt is still active
C25_NoActiveReservationAfterFailure ==
    [][\A h \in Handlers :
         (handler[h].pc = "cancel_usage" /\ handler'[h].pc # "cancel_usage") =>
             \A u \in DOMAIN usages[handler[h].job] :
                 usages'[handler[h].job][u] # "active"]_vars

\* C26: at most one caller is blocked on a job's condition at any time, a
\* retry that starts a fresh start_processing included
C26_AtMostOneWaiter ==
    \A j \in Jobs : tasks[j].waiting <= 1

\* release_condition(j) has notified the calls waiting for job j
Notifies(j) == tasks'[j].notified > tasks[j].notified

\* a woken call of job j has run its cleanup_condition and asks for the job
Resumes(j) == tasks'[j].reloading > tasks[j].reloading

NonTerminalUpdate(rec) ==
    /\ rec.ctx \in {"webhook", "poll"}
    /\ rec.pc = "update_save"
    /\ ~is_done(rec.data)

TimeoutStep(h) ==
    /\ handler'[h] # handler[h]
    /\ \/ handler[h].cause = "timeout"
       \/ handler'[h].cause = "timeout"

\* the stored job j is finalized as a service timeout
FinalizedAsTimeout(j) ==
    /\ store[j].status = "error"
    /\ store[j].task_status = "error"
    /\ store[j].error = "Service Timeout"

C30_CancelledReleasesWaiter ==
    \A j \in Jobs :
        (store[j].status = "cancelled" /\ Standstill(j)) => Blocked(j) = 0

\* C31: a cancellation that Replicate reports, by webhook or by poll, stops
\* the job without retry: retry_count stays 0, no further start_processing
\* is started, and once the report has been processed the job is cancelled
C31_CancellationStopsWithoutRetry ==
    \A j \in Jobs :
        /\ StoredRetryCount(j) = 0
        /\ started[j] <= 1
        /\ (events > 0 /\ AtRest(j) /\ engine[j] # "none") =>
               store[j].status = "cancelled"

\* C32: for every status word of Replicate the webhook channel and the poll
\* channel give process_imagine_webhook the same canonical status, and
\* validating a status that is already canonical leaves it as it is
C32_ChannelsAgree ==
    /\ (call.f = "channels" /\ call.returned) => call.status = call.polled
    /\ (call.f = "revalidate" /\ call.returned) => call.status = call.raw

\* C33: every update of a job's meta_data is a merge: a key that the stored
\* meta_data has before a step (retry_count, the provider's id) is still
\* there after it
C33_MetaDataMerged ==
    [][\A j \in Jobs :
         DOMAIN store[j].meta_data \subseteq DOMAIN store'[j].meta_data]_vars

\* the handlers that are inside a terminal side effect of job j: the upload
\* of the results, the cancellation of the usage
InSideEffect(j) ==
    {h \in Handlers : /\ handler[h].job = j
                      /\ handler[h].pc \in {"process_result", "cancel_usage"}}

\* C34: the mutations of one job are serialized: no two terminal side
\* effects of a job run at the same time, and no save of an older copy
\* takes stored results away
C34_SerializedPerJob ==
    /\ [](\A j \in Jobs : Cardinality(InSideEffect(j)) <= 1)
    /\ [][\A j \in Jobs :
            store[j].results # 0 => store'[j].results # 0]_vars

\* the children of the bulk job whose stored status is s
ChildrenIn(s) == {j \in Jobs : store[j].bulk = TheBulk /\ store[j].status = s}

\* C35: each child counts at most once: when every child is terminal and
\* all its notifications of the bulk job have run, total_completed is the
\* number of children stored as completed and total_failed the number of
\* children stored as error
C35_CountersMatchChildren ==
    (ChildrenDone /\ \A j \in Jobs : bulk_notices[j] >= 1) =>
        /\ bulk_store.total_completed = Cardinality(ChildrenIn("completed"))
        /\ bulk_store.total_failed = Cardinality(ChildrenIn("error"))

\* C36: once every child of the bulk job is terminal, the bulk job becomes
\* terminal: when each child has failed or had its completed answer
\* processed and nothing is left to run, the bulk job's task_status is
\* completed or error
C36_BulkBecomesTerminal ==
    (ChildrenDone /\ \A j \in Jobs : Settled(j)) => BulkTerminal

\* handler h stores an error transition of its job: the retry that follows an
\* error webhook or an error poll, or a failure
ErrorTransition(h) ==
    /\ handler[h].pc \in {"retry_save", "fail_save"}
    /\ handler'[h].pc # handler[h].pc

\* C37: every error transition stores a failure message in the job's error
\* field, and a stored failure message is never cleared
C37_ErrorKept ==
    [][/\ \A h \in Handlers :
            ErrorTransition(h) => store'[handler[h].job].error # NoError
       /\ \A j \in Jobs :
            store[j].error # NoError => store'[j].error # NoError]_vars

\* C38: a woken caller of imagine_request reloads and returns a job whose
\* stored status is terminal, and release_condition notifies the callers of a
\* job only when its stored status is terminal
C38_WokenCallerSeesTerminal ==
    /\ [](\A j \in Jobs : \A r \in task_result[j] :
            r[1] = "reload" => is_done(r[2]))
    /\ [][\A j \in Jobs : Notifies(j) => is_done(store'[j].status)]_vars

\* C39: over the lifetime of a job the provider is submitted to at most
\* max_retries + 1 times: no job has had more than six calls of the engine's
\* imagine, the first one included
C39_SubmissionsBounded ==
    \A j \in Jobs : requests[j] <= max_retries + 1

\* C40: in every stored state of a job that has left draft the coarse
\* task_status is the projection of the fine status, so that task_status is
\* completed or error only when the status is terminal
C40_TaskStatusProjection ==
    \A j \in Jobs :
        store[j].status # "draft" =>
            /\ store[j].task_status = task_status(store[j].status)
            /\ store[j].task_status \in {"completed", "error"} =>
                  is_done(store[j].status)


====
